---- MODULE Spec2Model ----
(***************************************************************************)
(* Model of the query-time pipeline of zakordonets/RAG_2:                  *)
(*   app/services/orchestrator.py  handle_query                            *)
(*   app/services/rerank.py        rerank                                  *)
(*   app/services/llm_router.py    generate_answer and its provider chain  *)
(*   app/services/retrieval.py     rrf_fuse and hybrid_search              *)
(*                                                                         *)
(* handle_query is modelled block by block: one action per try/except      *)
(* block of the function.  The collaborators of a block (the stage it      *)
(* calls, the logger, the metrics collector) return or raise; which of     *)
(* them raises is an input of the action.  rerank and generate_answer are  *)
(* modelled from their own source; process_query, embed_dense,             *)
(* embed_sparse and hybrid_search are collaborators whose result is drawn  *)
(* from a bounded set.                                                     *)
(* rrf_fuse and hybrid_search are also modelled from their own source and  *)
(* run on their own in SpecSearch, generate_answer in SpecLLM.              *)
(***************************************************************************)
EXTENDS Integers, Sequences, FiniteSets, TLC

\* ------------------------------------------------------------------ bounds
\* Ids of the documents that short search results are built from.
MaxCands == 2
\* The long search result has TopN + Extra candidates (so truncation happens).
Extra == 1
\* Ids of the points a similarity search can return (so at most MaxPoints
\* hits per channel).
MaxPoints == 3
\* The store has at most MaxSecond matches for the second search call of
\* hybrid_search.
MaxSecond == 2
\* Term ids, and the longest index or value list, of a sparse service reply.
MaxTerms == 2
\* Threads that call _get_st_model (or _get_reranker) concurrently.
MaxThreads == 3
\* The clock of the cache runs MaxTicks half-TTL steps; MaxCalls calls of
\* embed_dense are made.
MaxTicks == 3
MaxCalls == 3
\* Chunks in one call of upsert_chunks.
MaxChunks == 2

\* ------------------------------------------------------- program constants
\* rerank(normalized, candidates, top_n=10) and candidates[:10]
TopN == 10
\* hybrid_search(q_dense, q_sparse, k=20, boosts=boosts)
K == 20
\* RRF_K = CONFIG.rrf_k (60 in the configuration the specification quotes)
RRF_K == 60
\* limit=0 of the second client.search call of hybrid_search
SparseLimit == 0
\* @cache_embedding(ttl=3600)
TTL == 3600

VARIABLES
    pc,          \* the block of handle_query that runs next; "done": an envelope
                 \* was returned; "raised": an exception reached the caller
    default_llm, \* llm_router.DEFAULT_LLM
    q_dense,     \* local q_dense
    q_sparse,    \* local q_sparse
    candidates,  \* local candidates (the list object rerank mutates in place)
    top_docs,    \* local top_docs
    answer,      \* local answer
    sources,     \* local sources
    ret,         \* the envelope handle_query returned
    calls,       \* history: the stages invoked so far, in order
    oc,          \* history: what each invoked stage did (its result)
    searchArgs,  \* history: the vectors hybrid_search was called with
    genArgs,     \* history: the ids of the passages generate_answer was given
    faults,      \* history: kinds of observability calls that raised
    recorded,    \* history: kinds passed to metrics_collector.record_error
    hs,          \* retrieval.py on its own: the configured weights, the
                 \* arguments and the result of the last call of rrf_fuse or
                 \* hybrid_search
    comp         \* rerank, the embedding layer and the indexer on their own:
                 \* the state of the component that is run (comp.op names it)

vars == <<pc, default_llm, q_dense, q_sparse, candidates, top_docs, answer,
          sources, ret, calls, oc, searchArgs, genArgs, faults, recorded, hs,
          comp>>

\* ------------------------------------------------------------------- data
Min(a, b) == IF a < b THEN a ELSE b

Take(s, n) == SubSeq(s, 1, Min(n, Len(s)))

\* rerank_score of a candidate that rerank has not annotated.
NoScore == -1

\* The url of the page that point i is a chunk of ("": the crawler gave the
\* page an empty url).  Points 1 and 2 are chunks of one page.
DocUrl(i) ==
    CASE i % 6 = 1 -> "https://d/Guide/Intro"
      [] i % 6 = 2 -> "https://d/Guide/Intro"
      [] i % 6 = 3 -> ""
      [] i % 6 = 4 -> "https://d/API/v1"
      [] i % 6 = 5 -> "https://d/docs/faq"
      [] OTHER     -> "https://d/release-notes"

\* A passage: mapping is FALSE for a list element whose payload cannot be
\* read (the element is no mapping, or its payload is a string), so that
\* c.get("payload", {}) or the .get on the payload raises.
Doc(i) == [id |-> i, url |-> DocUrl(i), rerank_score |-> NoScore, mapping |-> TRUE]

Malformed(i) == [id |-> i, url |-> "", rerank_score |-> NoScore, mapping |-> FALSE]

Docs(ids) == [i \in 1..Len(ids) |-> Doc(ids[i])]

\* The list in which element number bad is malformed (0: none is).
DocsWith(ids, bad) ==
    [i \in 1..Len(ids) |-> IF i = bad THEN Malformed(ids[i]) ELSE Doc(ids[i])]

HasMalformed(docs) == \E i \in 1..Len(docs) : ~docs[i].mapping

\* The position of the first malformed element (0: there is none).
FirstMalformed(docs) ==
    IF HasMalformed(docs)
    THEN CHOOSE i \in 1..Len(docs) :
            ~docs[i].mapping /\ \A j \in 1..(i - 1) : docs[j].mapping
    ELSE 0

Ids(docs) == [i \in 1..Len(docs) |-> docs[i].id]

Range(s) == {s[i] : i \in 1..Len(s)}

\* Short id lists without repetition over 1..MaxCands, and one long list.
ShortLists ==
    {s \in UNION {[1..n -> 1..MaxCands] : n \in 0..MaxCands} :
        Cardinality(Range(s)) = Len(s)}

LongList == [i \in 1..(TopN + Extra) |-> i]

\* What hybrid_search may return: at most K candidates, no id twice.
CandLists == {s \in ShortLists \cup {LongList} : Len(s) <= K}

\* ---------------------------------------------------------------- answers
NoAnswer == [fmt |-> "none", by |-> "none", body |-> "none"]

\* "Извините, провайдеры LLM недоступны. Попробуйте позже."
Apology == [fmt |-> "fixed", by |-> "none", body |-> "apology"]

\* -------------------------------------------------------------- envelopes
NoRet == [error |-> "unset", message |-> FALSE, answer |-> NoAnswer, sources |-> <<>>]

\* A variant of ErrEnv: the envelope has no message.
ErrEnvNoMessage(kind) ==
    [error |-> kind, message |-> FALSE, answer |-> NoAnswer, sources |-> <<>>]

ErrEnv(kind) == [error |-> kind, message |-> TRUE, answer |-> NoAnswer, sources |-> <<>>]

OkEnv(a, s) == [error |-> "", message |-> FALSE, answer |-> a, sources |-> s]

\* ----------------------------------------------------------------- rerank
\* The relevance model's score for a passage: "mod" reorders, "flat" ties.
ScoreOf(fn, id) == IF fn = "mod" THEN id % 3 ELSE 1

\* What the relevance model does on n pairs:
\*   "construct_fail" the constructor of the model raises (_get_reranker), no
\*                    score is asked for
\*   "score_fail"     compute_score raises, or returns a bare float
\*   "scores"         compute_score returns `len` scores of which number
\*                    `badAt` is not convertible by float() (badAt = 0: all
\*                    are)
\* The first two fail before any score is written.
RerankBehaviours(n) ==
    {[kind |-> kd, fn |-> "flat", len |-> 0, badAt |-> 0] :
        kd \in {"construct_fail", "score_fail"}} \cup
    {[kind |-> "scores", fn |-> fn, len |-> m, badAt |-> b] :
        fn \in {"mod", "flat"}, m \in {n - 1, n, n + 1} \cap Nat,
        b \in {0, 1, n}}

\* x.get("rerank_score", 0.0)
SortKey(d) == IF d.rerank_score = NoScore THEN 0 ELSE d.rerank_score

\* A variant of InsertDesc: x goes in front of the elements with an equal key.
InsertDescBeforeEqual(s, x) ==
    LET p == Cardinality({i \in 1..Len(s) : SortKey(s[i]) > SortKey(x)})
    IN  SubSeq(s, 1, p) \o <<x>> \o SubSeq(s, p + 1, Len(s))

\* list.sort(key, reverse=True) is stable: x goes behind every element whose
\* key is not smaller.
InsertDesc(s, x) ==
    LET p == Cardinality({i \in 1..Len(s) : SortKey(s[i]) >= SortKey(x)})
    IN  SubSeq(s, 1, p) \o <<x>> \o SubSeq(s, p + 1, Len(s))

RECURSIVE SortDescFrom(_, _, _)
SortDescFrom(s, i, acc) ==
    IF i > Len(s) THEN acc ELSE SortDescFrom(s, i + 1, InsertDesc(acc, s[i]))

SortDesc(s) == SortDescFrom(s, 1, <<>>)

\* rerank(query, candidates, top_n): [k: "ret" or "raise", cands: the
\* caller's list as rerank left it, ret: the returned list].  Building the
\* pairs reads the payload of every candidate, before any score is written.
Rerank(cands, top_n, beh) ==
    LET n == Len(cands)
        \* the first iteration of the annotation loop that raises (0: none):
        \* float(s) fails, or candidates[i] is out of range
        stops == {i \in 1..beh.len : i = beh.badAt \/ i > n}
        stopAt == IF stops = {} THEN 0
                  ELSE CHOOSE i \in stops : \A j \in stops : i <= j
        done == IF stopAt = 0 THEN beh.len ELSE stopAt - 1
        ann == [i \in 1..n |->
                  IF i <= done
                  THEN [cands[i] EXCEPT !.rerank_score = ScoreOf(beh.fn, cands[i].id)]
                  ELSE cands[i]]
        sorted == SortDesc(ann)
    IN  IF n = 0 THEN [k |-> "ret", cands |-> cands, ret |-> <<>>]
        ELSE IF beh.kind \in {"construct_fail", "score_fail"} \/ HasMalformed(cands)
        THEN [k |-> "raise", cands |-> cands, ret |-> <<>>]
        ELSE IF stopAt # 0 THEN [k |-> "raise", cands |-> ann, ret |-> <<>>]
        ELSE [k |-> "ret", cands |-> sorted, ret |-> Take(sorted, top_n)]

\* The calls of reranker.compute_score one call of rerank makes: none for an
\* empty list, none when the constructor of the model raises or building the
\* pairs raises on a malformed candidate, else one for the whole list of pairs.
ScoringCalls(cands, beh) ==
    IF Len(cands) = 0 \/ beh.kind = "construct_fail" \/ HasMalformed(cands)
    THEN 0
    ELSE 1

\* ------------------------------------------------------------- llm_router
Providers == {"YANDEX", "GPT5", "DEEPSEEK"}

\* Values of CONFIG.default_llm: the three providers and an unrecognised name.
DefaultLLMs == Providers \cup {"OTHER"}

\* order = [DEFAULT_LLM, "GPT5", "DEEPSEEK"]
ChainOrder(default) == <<default, "GPT5", "DEEPSEEK">>

\* What one call of a provider does:
\*   "raise"     the request fails (network, non-2xx, missing credentials,
\*               body that is not JSON)
\*   "text"      HTTP success, the body holds the completion text
\*   "malformed" HTTP success, the expected result/choices fields are missing
\*   "nontext"   HTTP success, the text field holds no string (null)
ProviderKinds == {"raise", "text", "malformed", "nontext"}

\* _yandex_complete, _gpt5_complete, _deepseek_complete for an outcome that
\* does not raise: the text, or str(data) when the fields are missing.
Complete(provider, kind) ==
    [by |-> provider,
     body |-> CASE kind = "text"      -> "completion"
                [] kind = "malformed" -> "strdata"
                [] OTHER              -> "null"]

\* _format_for_telegram raises when its argument is no string.
FormatRaises(text) == text.body = "null"

\* _format_for_telegram: markdownify, or the plain substitution when
\* markdownify fails.
FormatForTelegram(text, md) ==
    [fmt |-> IF md THEN "md" ELSE "plain", by |-> text.by, body |-> text.body]

\* A variant of TryProviders: a successful provider does not end the loop, a
\* later success overwrites the answer.
RECURSIVE TryProvidersLastWins(_, _, _, _, _)
TryProvidersLastWins(order, i, outs, md, log) ==
    IF i > Len(order) THEN [answer |-> Apology, log |-> log]
    ELSE IF order[i] \notin Providers
    THEN TryProvidersLastWins(order, i + 1, outs, md, log)
    ELSE LET log2 == Append(log, [provider |-> order[i], kind |-> outs[i]])
             text == Complete(order[i], outs[i])
             rest == TryProvidersLastWins(order, i + 1, outs, md, log2)
         IN  IF outs[i] = "raise" \/ FormatRaises(text) \/ rest.answer # Apology
             THEN rest
             ELSE [answer |-> FormatForTelegram(text, md), log |-> rest.log]

\* The loop of generate_answer from position i of the chain: the answer and
\* the log of the provider calls made, [provider, kind].
RECURSIVE TryProviders(_, _, _, _, _)
TryProviders(order, i, outs, md, log) ==
    IF i > Len(order) THEN [answer |-> Apology, log |-> log]
    ELSE IF order[i] \notin Providers
    THEN TryProviders(order, i + 1, outs, md, log)
    ELSE LET log2 == Append(log, [provider |-> order[i], kind |-> outs[i]])
             text == Complete(order[i], outs[i])
         IN  IF outs[i] = "raise" \/ FormatRaises(text)
             THEN TryProviders(order, i + 1, outs, md, log2)
             ELSE [answer |-> FormatForTelegram(text, md), log |-> log2]

\* generate_answer(query, context, policy): building the prompt reads the
\* payload of every passage of the context, outside the try block, so it
\* raises on a malformed passage; otherwise the chain runs.
GenerateAnswer(default, context, outs, md) ==
    IF HasMalformed(context) THEN [k |-> "raise", answer |-> NoAnswer, log |-> <<>>]
    ELSE LET r == TryProviders(ChainOrder(default), 1, outs, md, <<>>)
         IN  [k |-> "ret", answer |-> r.answer, log |-> r.log]

\* ------------------------------------------------------ source extraction
\* A variant of ExtractFrom: a new source is put in front of the list.
RECURSIVE ExtractFromPrepend(_, _, _, _)
ExtractFromPrepend(docs, i, failAt, acc) ==
    IF i > Len(docs) \/ i = failAt THEN acc
    ELSE ExtractFromPrepend(docs, i + 1, failAt,
                            IF docs[i].url # "" THEN <<docs[i].url>> \o acc ELSE acc)

\* The url list the loop of step 7 has built when it stops: it raises on
\* passage number failAt (0: on none), after appending the earlier ones.
RECURSIVE ExtractFrom(_, _, _, _)
ExtractFrom(docs, i, failAt, acc) ==
    IF i > Len(docs) \/ i = failAt THEN acc
    ELSE ExtractFrom(docs, i + 1, failAt,
                     IF docs[i].url # "" THEN Append(acc, docs[i].url) ELSE acc)

\* The try block of step 7 on the passages docs: the loop reads the payload
\* of each passage as the prompt loop of generate_answer does, and raises on
\* the first malformed one.
ExtractSources(docs) ==
    [k |-> IF HasMalformed(docs) THEN "raise" ELSE "ret",
     sources |-> ExtractFrom(docs, 1, FirstMalformed(docs), <<>>)]

\* -------------------------------------------------------------- retrieval
\* Scores are exact fractions, written as integer multiples of 1/Scale:
\* Scale is a multiple of RRF_K + rank for every rank that occurs.
RECURSIVE ScaleFrom(_)
ScaleFrom(r) == IF r = 0 THEN 1 ELSE (RRF_K + r) * ScaleFrom(r - 1)

Scale == ScaleFrom(MaxPoints)

\* Values of W_DENSE and W_SPARSE (CONFIG.hybrid_dense_weight, _sparse_weight).
Weights == {1, 2}

\* Hit lists: the ids of the hits in order; a search returns a point once.
HitLists ==
    {s \in UNION {[1..n -> 1..MaxPoints] : n \in 0..MaxPoints} :
        Cardinality(Range(s)) = Len(s)}

SecondLists == {s \in HitLists : Len(s) <= MaxSecond}

\* url.lower() on the urls of the model.
UrlLower(url) ==
    CASE url = "https://d/Guide/Intro" -> "https://d/guide/intro"
      [] url = "https://d/API/v1"      -> "https://d/api/v1"
      [] OTHER                         -> url

\* The words classify_page looks for that occur in a lower-case url.
WordsIn(low) ==
    CASE low = "https://d/api/v1"        -> {"api"}
      [] low = "https://d/docs/faq"      -> {"faq"}
      [] low = "https://d/release-notes" -> {"release"}
      [] OTHER                           -> {}

\* classify_page(url)
ClassifyPage(url) ==
    LET low == UrlLower(url)
    IN  IF "faq" \in WordsIn(low) THEN "faq"
        ELSE IF "api" \in WordsIn(low) THEN "api"
        ELSE IF "release" \in WordsIn(low) \/ "changelog" \in WordsIn(low)
        THEN "release_notes"
        ELSE "guide"

\* Point i was stored by crawl_and_index; the other points were stored by
\* another caller of upsert_chunks, which stores the payload it is given.
ByPipeline(i) == i % 6 \notin {2, 3}

\* payload["page_type"] of point i: crawl_and_index stores the class of the
\* page the chunk belongs to; upsert_chunks stores the payload its caller
\* gave, here one with the page_type "Guide" and one without page_type ("").
PageType(i) ==
    IF ByPipeline(i) THEN ClassifyPage(DocUrl(i))
    ELSE IF i % 6 = 2 THEN "Guide"
    ELSE ""

\* str.lower() on a page type or a key of a boosts map.
Lower(str) == IF str = "Guide" THEN "guide" ELSE str

\* The boosts maps hybrid_search is called with ({}: boosts is None or empty).
BoostMaps ==
    {[key \in {} |-> 1],
     [key \in {"guide"} |-> 2],
     [key \in {"Guide"} |-> 2],
     [key \in {"api"} |-> 3],
     [key \in {"guide"} |-> 0],
     [key \in {"guide", "Guide"} |-> IF key = "guide" THEN 2 ELSE 3]}

\* A variant of Contribution: ranks are counted from 0.
ContributionFromZero(w, rank) == w * (Scale \div (RRF_K + rank - 1))

\* weight * (1.0 / (RRF_K + rank))
Contribution(w, rank) == w * (Scale \div (RRF_K + rank))

\* The scores dict: its keys in insertion order and the score of each key.
EmptyScores == [keys |-> <<>>, score |-> [pid \in {} |-> 0]]

\* A variant of AccumulateFrom: an id that already has a score keeps it.
RECURSIVE AccumulateKeepFirst(_, _, _, _)
AccumulateKeepFirst(acc, hits, w, rank) ==
    IF rank > Len(hits) THEN acc
    ELSE LET pid == hits[rank]
             seen == pid \in DOMAIN acc.score
             new == [keys |-> IF seen THEN acc.keys ELSE Append(acc.keys, pid),
                     score |-> [q \in DOMAIN acc.score \cup {pid} |->
                                   IF q = pid /\ ~seen THEN Contribution(w, rank)
                                   ELSE acc.score[q]]]
         IN  AccumulateKeepFirst(new, hits, w, rank + 1)

\* One loop of rrf_fuse, from position `rank` of `hits`:
\* scores[pid] = scores.get(pid, 0.0) + w * (1.0 / (RRF_K + rank)).
RECURSIVE AccumulateFrom(_, _, _, _)
AccumulateFrom(acc, hits, w, rank) ==
    IF rank > Len(hits) THEN acc
    ELSE LET pid == hits[rank]
             seen == pid \in DOMAIN acc.score
             old == IF seen THEN acc.score[pid] ELSE 0
             new == [keys |-> IF seen THEN acc.keys ELSE Append(acc.keys, pid),
                     score |-> [q \in DOMAIN acc.score \cup {pid} |->
                                   IF q = pid THEN old + Contribution(w, rank)
                                   ELSE acc.score[q]]]
         IN  AccumulateFrom(new, hits, w, rank + 1)

\* key=lambda x: x["rrf_score"] and key=lambda x: x["boosted_score"], applied
\* to every item of a list.
KeyRrf(items) == [i \in 1..Len(items) |-> items[i].rrf_score]

KeyBoosted(items) == [i \in 1..Len(items) |-> items[i].boosted_score]

\* A variant of StableSortDesc: equal keys come out in reverse order.
SortDescTiesReversed(s, keys) ==
    LET pos(i) == 1 + Cardinality({j \in 1..Len(s) : keys[j] > keys[i]})
                    + Cardinality({j \in (i + 1)..Len(s) : keys[j] = keys[i]})
    IN  [p \in 1..Len(s) |-> s[CHOOSE i \in 1..Len(s) : pos(i) = p]]

\* list.sort(key=..., reverse=True) of s, where keys[i] is the key of s[i]:
\* descending, equal keys keep their order.
StableSortDesc(s, keys) ==
    LET pos(i) == 1 + Cardinality({j \in 1..Len(s) : keys[j] > keys[i]})
                    + Cardinality({j \in 1..(i - 1) : keys[j] = keys[i]})
    IN  [p \in 1..Len(s) |-> s[CHOOSE i \in 1..Len(s) : pos(i) = p]]

\* rrf_fuse(first, second) with the weights w1 for the first list and w2 for
\* the second (rrf_fuse(dense_hits, sparse_hits) has w1 = W_DENSE and
\* w2 = W_SPARSE).
RrfFuse(first, second, w1, w2) ==
    LET acc == AccumulateFrom(AccumulateFrom(EmptyScores, first, w1, 1),
                              second, w2, 1)
        fused == [i \in 1..Len(acc.keys) |->
                    [id |-> acc.keys[i], rrf_score |-> acc.score[acc.keys[i]]]]
    IN  StableSortDesc(fused, KeyRrf(fused))

\* client.search(..., limit=limit) on a store that has `matches` for the
\* query, best first.
Search(matches, limit) == Take(matches, limit)

\* A variant of BoostItem: the boosted value is written to rrf_score too.
BoostItemIntoRrf(item, boosts) ==
    LET page_type == Lower(PageType(item.id))
        b == IF page_type # "" /\ page_type \in DOMAIN boosts
             THEN item.rrf_score * boosts[page_type]
             ELSE item.rrf_score
    IN  [id |-> item.id, rrf_score |-> b, boosted_score |-> b]

\* it["boosted_score"] = boost_score(it)
BoostItem(item, boosts) ==
    LET page_type == Lower(PageType(item.id))
    IN  [id |-> item.id, rrf_score |-> item.rrf_score,
         boosted_score |->
            IF page_type # "" /\ page_type \in DOMAIN boosts
            THEN item.rrf_score * boosts[page_type]
            ELSE item.rrf_score]

\* hybrid_search(query_dense, query_sparse, k, boosts) on a store that has
\* denseM for the dense query and second for the query of the second search
\* call; raises2: the second call raises.  limits: the limit of every
\* client.search call made; fused: the result of rrf_fuse; out: the result.
HybridSearchFn(denseM, second, qs, raises2, k, boosts, wd, ws) ==
    LET dense_res == Search(denseM, k)
        issued == qs = "nonempty"
        sparse_res == IF issued /\ ~raises2 THEN Search(second, SparseLimit)
                      ELSE <<>>
        fused == RrfFuse(dense_res, sparse_res, wd, ws)
        boosted == [i \in 1..Len(fused) |-> BoostItem(fused[i], boosts)]
    IN  [limits |-> IF issued THEN <<k, SparseLimit>> ELSE <<k>>,
         fused |-> fused,
         out |-> Take(StableSortDesc(boosted, KeyBoosted(boosted)), k)]

NoSearchResult == [limits |-> <<>>, fused |-> <<>>, out |-> <<>>]

HsIdle == [op |-> "none", wd |-> 1, ws |-> 1, dense |-> <<>>, sparse |-> <<>>,
           qs |-> "empty", raises2 |-> FALSE, k |-> 1,
           boosts |-> [key \in {} |-> 1], res |-> NoSearchResult]

\* ------------------------------------------------------------ embed_sparse
\* A weight as the service sends it: a number, or something float() rejects.
WeightTokens == {"0.5", "abc"}

IsNumeric(w) == w # "abc"

SeqsUpTo(S, n) == UNION {[1..m -> S] : m \in 0..n}

\* The JSON bodies of a 2xx reply:
\*   "pairs" a mapping with the keys indices and values
\*   "map"   a mapping term -> weight (indices: its keys in order, values:
\*           the weight of each key)
\*   "list"  a JSON value that is no mapping
SparseBodies ==
    {[shape |-> "pairs", indices |-> i, values |-> v] :
        i \in SeqsUpTo(1..MaxTerms, MaxTerms),
        v \in SeqsUpTo(WeightTokens, MaxTerms)}
    \cup {[shape |-> "map", indices |-> i, values |-> v] :
            i \in {t \in SeqsUpTo(1..MaxTerms, MaxTerms) :
                      Cardinality(Range(t)) = Len(t)},
            v \in SeqsUpTo(WeightTokens, MaxTerms)}
    \cup {[shape |-> "list", indices |-> <<>>, values |-> <<>>]}

\* What the POST to the sparse service does: it raises inside the try block
\* (timeout, transport error, non-2xx status, body that is not JSON), or it
\* yields a JSON body.
RemoteOutcomes ==
    {[kind |-> k, body |-> [shape |-> "none", indices |-> <<>>, values |-> <<>>]] :
        k \in {"timeout", "transport", "status", "notjson"}}
    \cup {[kind |-> "json", body |-> b] :
            b \in {x \in SparseBodies :
                      x.shape = "map" => Len(x.indices) = Len(x.values)}}

\* {"indices": [], "values": []}
EmptyVector == [shape |-> "pairs", indices |-> <<>>, values |-> <<>>]

\* embed_sparse(text): [k: "ret" or "raise", v: the value returned,
\* requests: the number of POSTs made].  Both branches on
\* CONFIG.cache_enabled run the same statements.
EmbedSparseFn(use_sparse, cache_enabled, remote) ==
    IF ~use_sparse THEN [k |-> "ret", v |-> EmptyVector, requests |-> 0]
    ELSE IF remote.kind # "json"
    THEN [k |-> "ret", v |-> EmptyVector, requests |-> 1]
    ELSE IF remote.body.shape = "map"
    THEN IF \E i \in 1..Len(remote.body.values) : ~IsNumeric(remote.body.values[i])
         THEN [k |-> "raise", v |-> EmptyVector, requests |-> 1]
         ELSE [k |-> "ret",
               v |-> [shape |-> "pairs", indices |-> remote.body.indices,
                      values |-> remote.body.values],
               requests |-> 1]
    ELSE [k |-> "ret", v |-> remote.body, requests |-> 1]

\* No component is run on its own.
CompIdle == [op |-> "none"]

\* ------------------------------------------------------------ handle_query
StageOrder == <<"process_query", "embed_dense", "embed_sparse", "hybrid_search",
                "rerank", "generate_answer", "extract_sources">>

\* The logger calls and the metrics_collector calls of handle_query, named by
\* their line in orchestrator.py.
LogSites == {"l50", "l62", "l64", "l78", "l81", "l97", "l100", "l109", "l113",
             "l124", "l138", "l140", "l148", "l151", "l173", "l176", "l192"}

MetSites == {"m79", "m83", "m98", "m102", "m110", "m115", "m126", "m149",
             "m153", "m179", "m180", "m181", "m197", "m198"}

NoOutcome == [pq |-> "none", dense |-> "none", sparse |-> "none",
              search |-> [k |-> "none", v |-> <<>>, bad |-> 0],
              rerank |-> [k |-> "none", cands |-> <<>>, ret |-> <<>>],
              gen |-> [k |-> "none", answer |-> NoAnswer, log |-> <<>>],
              extract |-> [k |-> "none", sources |-> <<>>]]

\* The state as one record, so that a block of handle_query is an operator
\* from the state before it to the state after it.
Frame ==
    [pc |-> pc, default_llm |-> default_llm, q_dense |-> q_dense,
     q_sparse |-> q_sparse, candidates |-> candidates, top_docs |-> top_docs,
     answer |-> answer, sources |-> sources, ret |-> ret, calls |-> calls,
     oc |-> oc, searchArgs |-> searchArgs, genArgs |-> genArgs,
     faults |-> faults, recorded |-> recorded]

InitFrame(d) ==
    [pc |-> "start", default_llm |-> d, q_dense |-> "unset",
     q_sparse |-> "unset", candidates |-> <<>>, top_docs |-> <<>>,
     answer |-> NoAnswer, sources |-> <<>>, ret |-> NoRet, calls |-> <<>>,
     oc |-> NoOutcome, searchArgs |-> [dense |-> "unset", sparse |-> "unset"],
     genArgs |-> <<>>, faults |-> {}, recorded |-> {}]

Install(f) ==
    /\ pc' = f.pc
    /\ default_llm' = f.default_llm
    /\ q_dense' = f.q_dense
    /\ q_sparse' = f.q_sparse
    /\ candidates' = f.candidates
    /\ top_docs' = f.top_docs
    /\ answer' = f.answer
    /\ sources' = f.sources
    /\ ret' = f.ret
    /\ calls' = f.calls
    /\ oc' = f.oc
    /\ searchArgs' = f.searchArgs
    /\ genArgs' = f.genArgs
    /\ faults' = f.faults
    /\ recorded' = f.recorded
    /\ hs' = hs
    /\ comp' = comp

\* The observability call at `site` raises ("none": no call raises).
Raise(f, site) ==
    IF site = "none" THEN f
    ELSE [f EXCEPT !.faults = @ \cup {IF site \in LogSites THEN "log" ELSE "met"}]

\* return {...}
Return(f, env) == [f EXCEPT !.pc = "done", !.ret = env]

\* An exception leaves a stage's except block: the outer except takes it.
Escape(f, site) == [Raise(f, site) EXCEPT !.pc = "catch_all"]

\* metrics_collector.record_error(kind, ...) returned.
Record(f, kind) == [f EXCEPT !.recorded = @ \cup {kind}]

\* The except block of a fatal stage: logger.error, record_error(kind), return
\* the error envelope.  h is the call of the block that raises.
FatalHandler(f, kind, h) ==
    IF h # "none" THEN Escape(f, h)
    ELSE Return(Record(f, kind), ErrEnv(kind))

\* Lines 49-50, outside the outer try: an exception here reaches the caller.
AfterStart(f, t) ==
    IF t = "l50" THEN [Raise(f, t) EXCEPT !.pc = "raised"]
    ELSE [f EXCEPT !.pc = "process_query"]

\* 1. Query Processing (lines 58-71).  The except block has no record_error.
AfterProcessQuery(f, res, t, h) ==
    LET f1 == [f EXCEPT !.calls = Append(@, "process_query"), !.oc.pq = res]
        t1 == IF res = "ok" THEN t ELSE "none"
    IN  IF res = "ok" /\ t1 = "none" THEN [f1 EXCEPT !.pc = "embed_dense"]
        ELSE IF h # "none" THEN Escape(Raise(f1, t1), h)
        ELSE Return(Raise(f1, t1), ErrEnv("query_processing_failed"))

\* 2. Dense Embedding (lines 74-90).
AfterEmbedDense(f, res, t, h) ==
    LET f1 == [f EXCEPT !.calls = Append(@, "embed_dense"), !.oc.dense = res,
                        !.q_dense = IF res = "ok" THEN "vec" ELSE @]
        t1 == IF res = "ok" THEN t ELSE "none"
    IN  IF res = "ok" /\ t1 = "none" THEN [f1 EXCEPT !.pc = "embed_sparse"]
        ELSE FatalHandler(Raise(f1, t1), "embedding_failed", h)

\* 3. Sparse Embedding (lines 93-102): the except block substitutes the empty
\* vector and goes on.
AfterEmbedSparse(f, res, t, h) ==
    LET f1 == [f EXCEPT !.calls = Append(@, "embed_sparse"), !.oc.sparse = res,
                        !.q_sparse = IF res # "raise" THEN res ELSE @]
        t1 == IF res # "raise" THEN t ELSE "none"
        f2 == Raise(f1, t1)
    IN  IF res # "raise" /\ t1 = "none" THEN [f1 EXCEPT !.pc = "hybrid_search"]
        ELSE IF h = "l100" THEN Escape(f2, h)
        ELSE IF h = "m102" THEN Escape([f2 EXCEPT !.q_sparse = "empty"], h)
        ELSE [Record(f2, "sparse_embedding_failed") EXCEPT
                 !.q_sparse = "empty", !.pc = "hybrid_search"]

\* A variant of IsEmptyResult: the empty check is missing.
IsEmptyResultNever(cands) == FALSE

\* if not candidates (line 112)
IsEmptyResult(cands) == cands = <<>>

\* 4. Hybrid Search (lines 105-133).  The no_results return is inside the try
\* block, so its logger and metrics calls are covered by the except block.
AfterHybridSearch(f, res, t, h) ==
    LET f1 == [f EXCEPT !.calls = Append(@, "hybrid_search"), !.oc.search = res,
                        !.searchArgs = [dense |-> f.q_dense, sparse |-> f.q_sparse],
                        !.candidates = IF res.k = "ret" THEN DocsWith(res.v, res.bad)
                                       ELSE @]
        empty == res.k = "ret" /\ IsEmptyResult(res.v)
        t1 == IF res.k # "ret" THEN "none"
              ELSE IF t \in {"l109", "m110"} THEN t
              ELSE IF empty /\ t \in {"l113", "m115"} THEN t
              ELSE "none"
    IN  IF res.k = "ret" /\ t1 = "none"
        THEN IF empty THEN Return(Record(f1, "no_results"), ErrEnv("no_results"))
             ELSE [f1 EXCEPT !.pc = "rerank"]
        ELSE FatalHandler(Raise(f1, t1), "search_failed", h)

\* A variant of Fallback: the slice is missing.
FallbackAll(cands, n) == cands

\* top_docs = candidates[:10] (line 141)
Fallback(cands, n) == Take(cands, n)

\* 5. Reranking (lines 136-141).  rerank works on the caller's list; the
\* except block has no record_error.
AfterRerank(f, res, t, h) ==
    LET f1 == [f EXCEPT !.calls = Append(@, "rerank"), !.oc.rerank = res,
                        !.candidates = res.cands,
                        !.top_docs = IF res.k = "ret" THEN res.ret ELSE @]
        t1 == IF res.k = "ret" THEN t ELSE "none"
        f2 == Raise(f1, t1)
    IN  IF res.k = "ret" /\ t1 = "none" THEN [f1 EXCEPT !.pc = "generate_answer"]
        ELSE IF h # "none" THEN Escape(f2, h)
        ELSE [f2 EXCEPT !.top_docs = Fallback(f2.candidates, TopN),
                        !.pc = "generate_answer"]

\* 6. LLM Generation (lines 144-160).
AfterGenerate(f, res, t, h) ==
    LET f1 == [f EXCEPT !.calls = Append(@, "generate_answer"), !.oc.gen = res,
                        !.genArgs = Ids(f.top_docs),
                        !.answer = IF res.k = "ret" THEN res.answer ELSE @]
        t1 == IF res.k = "ret" THEN t ELSE "none"
    IN  IF res.k = "ret" /\ t1 = "none" THEN [f1 EXCEPT !.pc = "extract_sources"]
        ELSE FatalHandler(Raise(f1, t1), "llm_failed", h)

\* 7. Extract sources (lines 163-173): what the loop appended before it
\* raised stays in sources.
AfterExtract(f, res, h) ==
    LET f1 == [f EXCEPT !.calls = Append(@, "extract_sources"), !.oc.extract = res,
                        !.sources = res.sources]
    IN  IF res.k = "raise" /\ h # "none" THEN Escape(f1, h)
        ELSE [f1 EXCEPT !.pc = "finish"]

\* Lines 175-189: the final log and metrics calls, then the success envelope.
AfterFinish(f, t) ==
    IF t # "none" THEN Escape(f, t)
    ELSE Return(f, OkEnv(f.answer, f.sources))

\* The exceptions that reach the outer except, named by type(e).__name__.
ExcTypes == {"ValueError", "RuntimeError"}

\* A variant of CatchAllEnvelope: the message is built from the exception.
CatchAllEnvelopeLeaky(e) ==
    [error |-> "internal_error", message |-> e, answer |-> NoAnswer,
     sources |-> <<>>]

\* The envelope the outer except returns for the exception e (lines 200-206).
CatchAllEnvelope(e) == ErrEnv("internal_error")

\* The outer except (lines 191-206): an exception raised in it reaches the
\* caller.
AfterCatchAll(f, e, h) ==
    IF h # "none" THEN [Raise(f, h) EXCEPT !.pc = "raised"]
    ELSE Return(Record(f, e), CatchAllEnvelope(e))

\* ----------------------------------------------------------------- actions
InitWith(f) ==
    /\ pc = f.pc
    /\ default_llm = f.default_llm
    /\ q_dense = f.q_dense
    /\ q_sparse = f.q_sparse
    /\ candidates = f.candidates
    /\ top_docs = f.top_docs
    /\ answer = f.answer
    /\ sources = f.sources
    /\ ret = f.ret
    /\ calls = f.calls
    /\ oc = f.oc
    /\ searchArgs = f.searchArgs
    /\ genArgs = f.genArgs
    /\ faults = f.faults
    /\ recorded = f.recorded

Init ==
    /\ \E d \in DefaultLLMs : InitWith(InitFrame(d))
    /\ hs = HsIdle
    /\ comp = CompIdle

Start ==
    /\ pc = "start"
    /\ \E t \in {"none", "l50"} : Install(AfterStart(Frame, t))

ProcessQuery ==
    /\ pc = "process_query"
    /\ \E res \in {"ok", "raise"}, t \in {"none", "l62"}, h \in {"none", "l64"} :
          Install(AfterProcessQuery(Frame, res, t, h))

EmbedDense ==
    /\ pc = "embed_dense"
    /\ \E res \in {"ok", "raise"}, t \in {"none", "l78", "m79"},
          h \in {"none", "l81", "m83"} :
          Install(AfterEmbedDense(Frame, res, t, h))

EmbedSparse ==
    /\ pc = "embed_sparse"
    /\ \E res \in {"raise", "empty", "nonempty"}, t \in {"none", "l97", "m98"},
          h \in {"none", "l100", "m102"} :
          Install(AfterEmbedSparse(Frame, res, t, h))

\* What hybrid_search does: it raises, or it returns the list v in which
\* element number bad is malformed (0: every element is well-formed).
SearchResults ==
    {[k |-> "raise", v |-> <<>>, bad |-> 0]}
    \cup {r \in [k : {"ret"}, v : CandLists, bad : 0..(TopN + Extra)] :
            r.bad <= Len(r.v)}

HybridSearch ==
    /\ pc = "hybrid_search"
    /\ \E res \in SearchResults, t \in {"none", "l109", "m110", "l113", "m115"},
          h \in {"none", "l124", "m126"} :
          Install(AfterHybridSearch(Frame, res, t, h))

RerankStage ==
    /\ pc = "rerank"
    /\ \E beh \in RerankBehaviours(Len(candidates)), t \in {"none", "l138"},
          h \in {"none", "l140"} :
          Install(AfterRerank(Frame, Rerank(candidates, TopN, beh), t, h))

\* The provider outcomes the pipeline is run with.
PipelineKinds == {"raise", "text"}

Generate ==
    /\ pc = "generate_answer"
    /\ \E outs \in [1..3 -> PipelineKinds],
          t \in {"none", "l148", "m149"}, h \in {"none", "l151", "m153"} :
          Install(AfterGenerate(Frame,
                                GenerateAnswer(default_llm, top_docs, outs, TRUE),
                                t, h))

Extract ==
    /\ pc = "extract_sources"
    /\ \E h \in {"none", "l173"} :
          Install(AfterExtract(Frame, ExtractSources(top_docs), h))

Finish ==
    /\ pc = "finish"
    /\ \E t \in {"none", "l176", "m179", "m180", "m181"} :
          Install(AfterFinish(Frame, t))

CatchAll ==
    /\ pc = "catch_all"
    /\ \E h \in {"none", "l192", "m197", "m198"} :
          \E e \in ExcTypes : Install(AfterCatchAll(Frame, e, h))

Next ==
    \/ Start
    \/ ProcessQuery
    \/ EmbedDense
    \/ EmbedSparse
    \/ HybridSearch
    \/ RerankStage
    \/ Generate
    \/ Extract
    \/ Finish
    \/ CatchAll

Spec == Init /\ [][Next]_vars

\* ------------------------------------------- generate_answer on its own
\* generate_answer called directly, with every provider outcome and both
\* outcomes of markdownify; the caller takes the result and calls again.
InitLLM ==
    /\ \E d \in DefaultLLMs : InitWith([InitFrame(d) EXCEPT !.pc = "llm_call"])
    /\ hs = HsIdle
    /\ comp = CompIdle

LLMCall ==
    /\ pc = "llm_call"
    /\ \E ctx \in ShortLists, bad \in 0..MaxCands,
          outs \in [1..3 -> ProviderKinds], md \in BOOLEAN :
          /\ bad <= Len(ctx)
          /\ LET res == GenerateAnswer(default_llm, DocsWith(ctx, bad), outs, md)
             IN  Install([Frame EXCEPT !.pc = "llm_returned",
                                       !.top_docs = DocsWith(ctx, bad),
                                       !.genArgs = ctx,
                                       !.calls = <<"generate_answer">>,
                                       !.oc.gen = res,
                                       !.answer = res.answer])

LLMReturn ==
    /\ pc = "llm_returned"
    /\ Install([InitFrame(default_llm) EXCEPT !.pc = "llm_call"])

NextLLM ==
    \/ LLMCall
    \/ LLMReturn

SpecLLM == InitLLM /\ [][NextLLM]_vars

\* ------------------------------------------------ retrieval on its own
\* rrf_fuse and hybrid_search called directly, for every pair of hit lists,
\* every k and boosts map; the weights are fixed when the module is loaded.
frameVars == <<default_llm, q_dense, q_sparse, candidates, top_docs, answer,
               sources, ret, calls, oc, searchArgs, genArgs, faults, recorded>>

InitSearch ==
    /\ InitWith([InitFrame("YANDEX") EXCEPT !.pc = "search_call"])
    /\ \E wd \in Weights, ws \in Weights :
          hs = [HsIdle EXCEPT !.wd = wd, !.ws = ws]
    /\ comp = CompIdle

\* rrf_fuse(dense_hits, sparse_hits)
FuseCall ==
    /\ pc = "search_call"
    /\ \E dense_hits \in HitLists, sparse_hits \in HitLists :
          hs' = [hs EXCEPT !.op = "fuse", !.dense = dense_hits,
                           !.sparse = sparse_hits,
                           !.res.fused = RrfFuse(dense_hits, sparse_hits,
                                                 hs.wd, hs.ws)]
    /\ pc' = "search_returned"
    /\ UNCHANGED <<frameVars, comp>>

\* hybrid_search(query_dense, query_sparse, k, boosts)
SearchCall ==
    /\ pc = "search_call"
    /\ \E denseM \in HitLists, second \in SecondLists, qs \in {"empty", "nonempty"},
          raises2 \in BOOLEAN, k \in {0, 1, MaxPoints}, boosts \in BoostMaps :
          /\ raises2 => qs = "nonempty"
          /\ hs' = [hs EXCEPT !.op = "search", !.dense = denseM,
                              !.sparse = second, !.qs = qs,
                              !.raises2 = raises2, !.k = k, !.boosts = boosts,
                              !.res = HybridSearchFn(denseM, second, qs, raises2,
                                                     k, boosts, hs.wd, hs.ws)]
    /\ pc' = "search_returned"
    /\ UNCHANGED <<frameVars, comp>>

SearchReturn ==
    /\ pc = "search_returned"
    /\ hs' = [HsIdle EXCEPT !.wd = hs.wd, !.ws = hs.ws]
    /\ pc' = "search_call"
    /\ UNCHANGED <<frameVars, comp>>

NextSearch ==
    \/ FuseCall
    \/ SearchCall
    \/ SearchReturn

SpecSearch == InitSearch /\ [][NextSearch]_vars

\* ---------------------------------------------------- rerank on its own
\* rerank(query, candidates, top_n) called directly, for candidate lists in
\* every order, several top_n and every behaviour of the relevance model.
otherVars == <<frameVars, hs>>

TopNs == {0, 1, TopN}

InitRerank ==
    /\ InitWith([InitFrame("YANDEX") EXCEPT !.pc = "rerank_call"])
    /\ hs = HsIdle
    /\ comp = CompIdle

RerankCall ==
    /\ pc = "rerank_call"
    /\ \E ids \in CandLists, top_n \in TopNs :
          \E beh \in RerankBehaviours(Len(ids)) :
             comp' = [op |-> "rerank", input |-> ids, top_n |-> top_n,
                      beh |-> beh, scoreCalls |-> ScoringCalls(Docs(ids), beh),
                      res |-> Rerank(Docs(ids), top_n, beh)]
    /\ pc' = "rerank_returned"
    /\ UNCHANGED otherVars

RerankReturn ==
    /\ pc = "rerank_returned"
    /\ comp' = CompIdle
    /\ pc' = "rerank_call"
    /\ UNCHANGED otherVars

NextRerank ==
    \/ RerankCall
    \/ RerankReturn

SpecRerank == InitRerank /\ [][NextRerank]_vars

\* ---------------------------------------------- embed_sparse on its own
InitSparse ==
    /\ InitWith([InitFrame("YANDEX") EXCEPT !.pc = "sparse_call"])
    /\ hs = HsIdle
    /\ comp = CompIdle

SparseCall ==
    /\ pc = "sparse_call"
    /\ \E use_sparse \in BOOLEAN, cache_enabled \in BOOLEAN,
          remote \in RemoteOutcomes :
          comp' = [op |-> "sparse", use_sparse |-> use_sparse,
                   cache_enabled |-> cache_enabled, remote |-> remote,
                   res |-> EmbedSparseFn(use_sparse, cache_enabled, remote)]
    /\ pc' = "sparse_returned"
    /\ UNCHANGED otherVars

SparseReturn ==
    /\ pc = "sparse_returned"
    /\ comp' = CompIdle
    /\ pc' = "sparse_call"
    /\ UNCHANGED otherVars

NextSparse ==
    \/ SparseCall
    \/ SparseReturn

SpecSparse == InitSparse /\ [][NextSparse]_vars

\* ------------------------------------------- lazy model construction
\* _get_st_model in embeddings.py and _get_reranker in rerank.py have the
\* same statements: a check of the global, `with lock`, a second check, the
\* constructor, the return of the global.  Each thread runs them one at a
\* time; the interpreter interleaves the threads between statements.
Threads == 1..MaxThreads

\* _st_model is None, 0 standing for None
IsNone(model) == model = 0

\* A variant of SecondCheck: the check under the lock is missing.
SecondCheckMissing(model) == TRUE

\* if _st_model is None (line 29, under the lock)
SecondCheck(model) == IsNone(model)

LockIdle ==
    [op |-> "lock",
     model |-> 0,                              \* the global, 0: None
     holder |-> 0,                             \* the thread that holds the lock
     built |-> 0,                              \* constructor runs that succeeded
     tpc |-> [t \in Threads |-> "idle"],       \* the statement each thread is at
     setAtEntry |-> [t \in Threads |-> FALSE], \* the global was set at its call
     locked |-> [t \in Threads |-> FALSE],     \* its call acquired the lock
     got |-> [t \in Threads |-> 0]]            \* what its call returned

InitLock ==
    /\ InitWith([InitFrame("YANDEX") EXCEPT !.pc = "lock_run"])
    /\ hs = HsIdle
    /\ comp = LockIdle

At(t, where) == pc = "lock_run" /\ comp.tpc[t] = where

\* The call and its first statement: if _st_model is None (line 26).
FirstCheck(t) ==
    /\ At(t, "idle")
    /\ comp' = [comp EXCEPT !.setAtEntry[t] = ~IsNone(comp.model),
                            !.locked[t] = FALSE,
                            !.got[t] = 0,
                            !.tpc[t] = IF IsNone(comp.model) THEN "acquire"
                                       ELSE "return"]
    /\ UNCHANGED <<pc, otherVars>>

\* with _st_lock: (line 28) waits until the lock is free.
Acquire(t) ==
    /\ At(t, "acquire")
    /\ comp.holder = 0
    /\ comp' = [comp EXCEPT !.holder = t, !.locked[t] = TRUE,
                            !.tpc[t] = "check2"]
    /\ UNCHANGED <<pc, otherVars>>

Check2(t) ==
    /\ At(t, "check2")
    /\ comp' = [comp EXCEPT !.tpc[t] = IF SecondCheck(comp.model)
                                       THEN "construct" ELSE "release"]
    /\ UNCHANGED <<pc, otherVars>>

\* _st_model = SentenceTransformer(...) (line 33): the instance is named by
\* the thread that built it.
Construct(t) ==
    /\ At(t, "construct")
    /\ comp' = [comp EXCEPT !.model = t, !.built = @ + 1,
                            !.tpc[t] = "release"]
    /\ UNCHANGED <<pc, otherVars>>

\* The constructor raises: the with block releases the lock and the
\* exception leaves the function.
ConstructFails(t) ==
    /\ At(t, "construct")
    /\ comp' = [comp EXCEPT !.holder = 0, !.tpc[t] = "raised"]
    /\ UNCHANGED <<pc, otherVars>>

\* The end of the with block.
Release(t) ==
    /\ At(t, "release")
    /\ comp' = [comp EXCEPT !.holder = 0, !.tpc[t] = "return"]
    /\ UNCHANGED <<pc, otherVars>>

\* return _st_model (line 34)
ReturnModel(t) ==
    /\ At(t, "return")
    /\ comp' = [comp EXCEPT !.got[t] = comp.model, !.tpc[t] = "returned"]
    /\ UNCHANGED <<pc, otherVars>>

\* The thread is ready for its next call.
NextCall(t) ==
    /\ pc = "lock_run"
    /\ comp.tpc[t] \in {"returned", "raised"}
    /\ comp' = [comp EXCEPT !.tpc[t] = "idle"]
    /\ UNCHANGED <<pc, otherVars>>

NextLock ==
    \/ \E t \in Threads : FirstCheck(t)
    \/ \E t \in Threads : Acquire(t)
    \/ \E t \in Threads : Check2(t)
    \/ \E t \in Threads : Construct(t)
    \/ \E t \in Threads : ConstructFails(t)
    \/ \E t \in Threads : Release(t)
    \/ \E t \in Threads : ReturnModel(t)
    \/ \E t \in Threads : NextCall(t)

SpecLock == InitLock /\ [][NextLock]_vars

\* ------------------------------------------------- embed_dense, cached
\* embed_dense is wrapped by cache_embedding(ttl=3600) of app.caching: a
\* read-through cache keyed by operation and text, expiry evaluated at read
\* time, bypassed when caching is disabled.  Calls are made one after the
\* other.
Texts == {"a", "b"}

\* What model.encode gives for a text: the model's output may differ from
\* one run to the next.
VecVersions == {1, 2}

\* No cache entry (vec 0).
NoEntry == [vec |-> 0, storedAt |-> 0]

\* A variant of EmbedDenseBody: the model is invoked twice.
EmbedDenseBodyTwice(enabled, text, v) == [vec |-> v, encodes |-> 2]

\* The body of embed_dense: _get_st_model(), model.encode(text, ...),
\* vec.tolist(), the same statements in both branches on cache_enabled.
EmbedDenseBody(enabled, text, v) == [vec |-> v, encodes |-> 1]

\* The entry for the text is present and has not expired.
Fresh(entry, now) == entry.vec # 0 /\ now < entry.storedAt + TTL

\* One call of the wrapped embed_dense: [vec, encodes: the model
\* invocations, storedAt: when the value returned was computed, store: the
\* cache after the call].
CachedEmbedDense(enabled, store, now, text, v) ==
    LET body == EmbedDenseBody(enabled, text, v)
    IN  IF ~enabled
        THEN [vec |-> body.vec, encodes |-> body.encodes, storedAt |-> now,
              store |-> store]
        ELSE IF Fresh(store[text], now)
        THEN [vec |-> store[text].vec, encodes |-> 0,
              storedAt |-> store[text].storedAt, store |-> store]
        ELSE [vec |-> body.vec, encodes |-> body.encodes, storedAt |-> now,
              store |-> [store EXCEPT ![text] =
                            [vec |-> body.vec, storedAt |-> now]]]

InitCache ==
    /\ InitWith([InitFrame("YANDEX") EXCEPT !.pc = "cache_run"])
    /\ hs = HsIdle
    /\ \E enabled \in BOOLEAN :
          comp = [op |-> "cache", enabled |-> enabled, now |-> 0,
                  store |-> [t \in Texts |-> NoEntry], log |-> <<>>]

\* embed_dense(text)
DenseCall ==
    /\ pc = "cache_run"
    /\ comp.op = "cache"
    /\ Len(comp.log) < MaxCalls
    /\ \E text \in Texts, v \in VecVersions :
          LET r == CachedEmbedDense(comp.enabled, comp.store, comp.now, text, v)
          IN  comp' = [comp EXCEPT
                          !.store = r.store,
                          !.log = Append(@, [text |-> text, time |-> comp.now,
                                             vec |-> r.vec, encodes |-> r.encodes,
                                             storedAt |-> r.storedAt])]
    /\ UNCHANGED <<pc, otherVars>>

\* Half a TTL passes.
Tick ==
    /\ pc = "cache_run"
    /\ comp.op = "cache"
    /\ comp.now < MaxTicks * (TTL \div 2)
    /\ comp' = [comp EXCEPT !.now = @ + TTL \div 2]
    /\ UNCHANGED <<pc, otherVars>>

NextCache ==
    \/ DenseCall
    \/ Tick

SpecCache == InitCache /\ [][NextCache]_vars

\* ------------------------------------------------------------- ingestion
\* upsert_chunks(chunks) against a vector store that keeps one point per id
\* (an upsert of an existing id overwrites the point).
ChunkTexts == {"a", " a", "b"}

\* text.strip()
Strip(text) == IF text = " a" THEN "a" ELSE text

\* text_hash(text): the sha256 hex digest of the stripped text, as its first
\* 32 hex digits and the rest; different stripped texts differ in both.
TextHash(text) == [pre |-> "P" \o Strip(text), rest |-> "R" \o Strip(text)]

\* ch.get("id"): "" when the chunk has none; "X" some 64-digit hex string
\* that is no hash of a chunk text; "bad" a string uuid.UUID(hex=...) rejects.
ChunkIds == {"", "X", "bad"}

ChunkSet == {[text |-> t, id |-> i] : t \in ChunkTexts, i \in ChunkIds}

ChunkLists == UNION {[1..n -> ChunkSet] : n \in 0..MaxChunks}

\* raw_hash.replace("-", "")[:32] of raw_hash = ch.get("id") or text_hash(...)
Hex32(ch) == IF ch.id # "" THEN ch.id ELSE TextHash(ch.text).pre

\* pid = str(uuid.UUID(hex=hex32))
PointId(ch) == Hex32(ch)

\* The ids a point can get.
PointIds == {PointId(ch) : ch \in {c \in ChunkSet : c.id # "bad"}}

\* No point ("" for its text).
NoPoint == [text |-> ""]

\* client.upsert(points=points): the points are written in list order.
RECURSIVE UpsertFrom(_, _, _)
UpsertFrom(store, chunks, i) ==
    IF i > Len(chunks) THEN store
    ELSE UpsertFrom([store EXCEPT ![PointId(chunks[i])] =
                        [text |-> chunks[i].text]],
                    chunks, i + 1)

\* upsert_chunks(chunks): [k: "ret" or "raise", n: the value returned,
\* store: the collection after the call].  uuid.UUID raises on a bad id
\* before anything is written; an empty list is not sent.
UpsertChunks(store, chunks) ==
    IF \E i \in 1..Len(chunks) : Hex32(chunks[i]) = "bad"
    THEN [k |-> "raise", n |-> 0, store |-> store]
    ELSE [k |-> "ret", n |-> Len(chunks), store |-> UpsertFrom(store, chunks, 1)]

InitIndex ==
    /\ InitWith([InitFrame("YANDEX") EXCEPT !.pc = "index_run"])
    /\ hs = HsIdle
    /\ comp = [op |-> "index", store |-> [pid \in PointIds |-> NoPoint],
               written |-> {}, last |-> "none"]

\* One call of upsert_chunks; written: the <<chunk, point id>> pairs sent to
\* the store so far.
UpsertCall ==
    /\ pc = "index_run"
    /\ comp.op = "index"
    /\ \E chunks \in ChunkLists :
          LET r == UpsertChunks(comp.store, chunks)
          IN  comp' = [comp EXCEPT
                          !.store = r.store,
                          !.last = r.k,
                          !.written = IF r.k = "raise" THEN @
                                      ELSE @ \cup {<<chunks[i], PointId(chunks[i])>> :
                                                      i \in 1..Len(chunks)}]
    /\ UNCHANGED <<pc, otherVars>>

NextIndex == UpsertCall

SpecIndex == InitIndex /\ [][NextIndex]_vars

\* ------------------------------------------------------ the reference run
\* The run of handle_query in which the stages do what `o` records and no
\* logger or metrics call raises.  It stops short of "done" at a stage that
\* `o` has no outcome for.
RECURSIVE RefRun(_, _)
RefRun(f, o) ==
    CASE f.pc = "start" -> RefRun(AfterStart(f, "none"), o)
      [] f.pc = "process_query" /\ o.pq # "none" ->
            RefRun(AfterProcessQuery(f, o.pq, "none", "none"), o)
      [] f.pc = "embed_dense" /\ o.dense # "none" ->
            RefRun(AfterEmbedDense(f, o.dense, "none", "none"), o)
      [] f.pc = "embed_sparse" /\ o.sparse # "none" ->
            RefRun(AfterEmbedSparse(f, o.sparse, "none", "none"), o)
      [] f.pc = "hybrid_search" /\ o.search.k # "none" ->
            RefRun(AfterHybridSearch(f, o.search, "none", "none"), o)
      [] f.pc = "rerank" /\ o.rerank.k # "none" ->
            RefRun(AfterRerank(f, o.rerank, "none", "none"), o)
      [] f.pc = "generate_answer" /\ o.gen.k # "none" ->
            RefRun(AfterGenerate(f, o.gen, "none", "none"), o)
      [] f.pc = "extract_sources" /\ o.extract.k # "none" ->
            RefRun(AfterExtract(f, o.extract, "none"), o)
      [] f.pc = "finish" -> RefRun(AfterFinish(f, "none"), o)
      [] f.pc = "catch_all" -> RefRun(AfterCatchAll(f, "RuntimeError", "none"), o)
      [] OTHER -> f

Reference(o) == RefRun(InitFrame(default_llm), o)

Terminated == pc \in {"done", "raised"}

Invoked(stage) == stage \in Range(calls)

\* ------------------------------------------------------------------ claims

\* The stage before stage number i let the run go on: it succeeded, or it is
\* an optional stage (its failure is replaced by the degraded value).
Advanced(stage) ==
    CASE stage = "process_query"   -> oc.pq = "ok"
      [] stage = "embed_dense"     -> oc.dense = "ok"
      [] stage = "embed_sparse"    -> oc.sparse # "none"
      [] stage = "hybrid_search"   -> oc.search.k = "ret" /\ oc.search.v # <<>>
      [] stage = "rerank"          -> oc.rerank.k # "none"
      [] stage = "generate_answer" -> oc.gen.k = "ret"
      [] OTHER                     -> TRUE

\* C1: in every run of handle_query the stages invoked so far are an initial
\* part of the fixed order process_query, embed_dense, embed_sparse,
\* hybrid_search, rerank, generate_answer, source extraction (so each is
\* invoked at most once and none after a later one), and a stage is invoked
\* only if every earlier stage succeeded or was replaced by its degraded
\* value: none after a fatal failure, none after an empty search result.
C1_StagesInOrder ==
    /\ Len(calls) <= Len(StageOrder)
    /\ calls = SubSeq(StageOrder, 1, Len(calls))
    /\ \A i \in 2..Len(calls) : \A j \in 1..(i - 1) : Advanced(StageOrder[j])

\* A run through all seven stages in which both optional stages failed.
C1_Witness ==
    /\ pc = "done"
    /\ calls = StageOrder
    /\ oc.sparse = "raise"
    /\ oc.rerank.k = "raise"

\* C2: a returned envelope carries the error kind of a fatal stage exactly
\* when that stage raised: query_processing_failed for process_query,
\* embedding_failed for embed_dense, search_failed for hybrid_search,
\* llm_failed for generate_answer, and no other failure produces these kinds.
C2_FatalKindsExact ==
    pc = "done" =>
        /\ oc.pq = "raise" <=> ret.error = "query_processing_failed"
        /\ oc.dense = "raise" <=> ret.error = "embedding_failed"
        /\ oc.search.k = "raise" <=> ret.error = "search_failed"
        /\ oc.gen.k = "raise" <=> ret.error = "llm_failed"

\* C3: whenever hybrid_search returned an empty list, the envelope returned
\* has error no_results (never search_failed), whatever the other
\* collaborators do.
C3_EmptySearchIsNoResults ==
    (pc = "done" /\ oc.search.k = "ret" /\ oc.search.v = <<>>)
        => ret.error = "no_results"

\* C4: no exception reaches the caller of handle_query: every call ends by
\* returning an envelope, whatever the stages, the logger and the metrics
\* collector do.
C4_NeverPropagates == pc # "raised"

\* C5: for the same outcomes of the stages, the envelope is the same whether
\* the metrics_collector calls succeed or raise: a run in which no logger
\* call raised ends with the envelope of the reference run, in which no
\* metrics call raises either.
C5_MetricsTransparent ==
    (Terminated /\ "log" \notin faults) =>
        /\ pc = "done"
        /\ Reference(oc).pc = "done"
        /\ ret = Reference(oc).ret

\* C6: if embed_sparse raises, the run does not end because of it:
\* hybrid_search is called with the dense vector and the empty sparse vector,
\* and the run ends as the run in which embed_sparse returned the empty
\* vector.
C6_SparseFailureContinues ==
    (Terminated /\ oc.sparse = "raise") =>
        /\ Invoked("hybrid_search")
        /\ searchArgs = [dense |-> "vec", sparse |-> "empty"]
        /\ faults = {} =>
              /\ pc = "done"
              /\ ret = Reference([oc EXCEPT !.sparse = "empty"]).ret

\* The passages of hybrid_search's result that a failed rerank leaves to the
\* later stages.
FirstTopN == Take(oc.search.v, TopN)

FirstTopNDocs == Take(DocsWith(oc.search.v, oc.search.bad), TopN)

\* C7: if rerank raises, at whatever point (also after it has begun to write
\* rerank_score into the candidates), the passages handed to generate_answer
\* and used for the sources are exactly the first 10 candidates of
\* hybrid_search's result, in the order hybrid_search returned them.
C7_RerankFailureFallsBack ==
    (oc.rerank.k = "raise" /\ Invoked("generate_answer")) =>
        /\ genArgs = FirstTopN
        /\ Ids(top_docs) = FirstTopN
        /\ Invoked("extract_sources") =>
              sources = ExtractSources(FirstTopNDocs).sources
        /\ (pc = "done" /\ ret.error = "") => ret.sources = sources

\* rerank raised after annotating a candidate, on a result of more than 10
\* candidates, and the run ended with an answer.
C7_Witness ==
    /\ pc = "done"
    /\ ret.error = ""
    /\ oc.rerank.k = "raise"
    /\ \E i \in 1..Len(candidates) : candidates[i].rerank_score # NoScore
    /\ Len(oc.search.v) > TopN
    /\ Len(ret.sources) > 0

\* The providers of the chain that generate_answer has a branch for.
RECURSIVE KnownOf(_, _)
KnownOf(order, i) ==
    IF i > Len(order) THEN <<>>
    ELSE (IF order[i] \in Providers THEN <<order[i]>> ELSE <<>>) \o KnownOf(order, i + 1)

\* C8: generate_answer tries the providers in chain order and the first one
\* that completes determines the answer: no provider is called after one has
\* returned a completion, the answer is the formatted text of that provider,
\* and when the first raises and the second succeeds there is no third call.
C8_FirstSuccessWins ==
    LET log == oc.gen.log
        chain == KnownOf(ChainOrder(default_llm), 1)
        n == Len(log)
    IN  oc.gen.k = "ret" =>
            /\ n <= Len(chain)
            /\ \A i \in 1..n : log[i].provider = chain[i]
            /\ \A i \in 1..(n - 1) : log[i].kind # "text"
            /\ (n > 0 /\ log[n].kind = "text") =>
                  /\ oc.gen.answer.by = log[n].provider
                  /\ oc.gen.answer.body = "completion"
                  /\ oc.gen.answer.fmt \in {"md", "plain"}
            /\ (n > 1 /\ log[1].kind = "raise" /\ log[2].kind = "text") => n = 2

\* The default provider raised, GPT5 answered, DEEPSEEK was not called.
C8_Witness ==
    /\ pc = "llm_returned"
    /\ default_llm = "YANDEX"
    /\ Len(oc.gen.log) = 2
    /\ oc.gen.log[1] = [provider |-> "YANDEX", kind |-> "raise"]
    /\ oc.gen.log[2] = [provider |-> "GPT5", kind |-> "text"]
    /\ oc.gen.answer.by = "GPT5"

\* C9: a provider that answers with HTTP success and a body without the
\* expected fields counts as failed: its body is not the answer, and the next
\* provider of the chain is tried.
C9_MalformedIsSkipped ==
    LET log == oc.gen.log
        chain == KnownOf(ChainOrder(default_llm), 1)
    IN  oc.gen.k = "ret" =>
            /\ oc.gen.answer.body # "strdata"
            /\ \A i \in 1..Len(log) :
                  (log[i].kind = "malformed" /\ i < Len(chain)) => i < Len(log)

\* C10: if every provider raises, generate_answer returns the fixed
\* "providers unavailable" string, and handle_query returns a success
\* envelope (no error, not llm_failed) with that answer and with the sources
\* extracted from the reranked passages.
C10_AllProvidersFailStillAnswers ==
    LET log == oc.gen.log
        allRaised == Len(log) > 0 /\ \A i \in 1..Len(log) : log[i].kind = "raise"
    IN  (Terminated /\ oc.gen.k = "ret" /\ allRaised) =>
            /\ oc.gen.answer = Apology
            /\ pc = "done"
            /\ ret.error = ""
            /\ ret.answer = Apology
            /\ ret.sources = ExtractSources(top_docs).sources

\* The urls in the payloads of a list of passages, in list order.
Urls(docs) == [i \in 1..Len(docs) |-> docs[i].url]

NonEmpty(u) == u # ""

\* s is t with some elements left out (the order kept).
RECURSIVE IsSubseqFrom(_, _, _, _)
IsSubseqFrom(s, i, t, j) ==
    IF i > Len(s) THEN TRUE
    ELSE IF j > Len(t) THEN FALSE
    ELSE IF s[i] = t[j] THEN IsSubseqFrom(s, i + 1, t, j + 1)
    ELSE IsSubseqFrom(s, i, t, j + 1)

IsSubseq(s, t) == IsSubseqFrom(s, 1, t, 1)

Success == pc = "done" /\ ret.error = ""

\* C11: in every success envelope no two entries of sources have the same
\* url, also when several passages of top_docs are chunks of one page.
C11_SourcesDeduplicated ==
    Success =>
        \A i, j \in 1..Len(ret.sources) :
            ret.sources[i] = ret.sources[j] => i = j

\* C12: in every success envelope the urls of sources are the urls of
\* top_docs (the passages generate_answer was given) with some left out and
\* the order kept; none is empty; and when the extraction loop ran to its end
\* they are exactly the non-empty urls of top_docs.
C12_SourcesInRerankOrder ==
    Success =>
        /\ genArgs = Ids(top_docs)
        /\ IsSubseq(ret.sources, Urls(top_docs))
        /\ \A i \in 1..Len(ret.sources) : ret.sources[i] # ""
        /\ oc.extract.k = "ret" =>
              ret.sources = SelectSeq(Urls(top_docs), NonEmpty)

\* rerank returned the passages in another order than hybrid_search did, and
\* the envelope lists two different urls.
C12_Witness ==
    /\ Success
    /\ oc.rerank.k = "ret"
    /\ Ids(top_docs) # Take(oc.search.v, TopN)
    /\ oc.extract.k = "ret"
    /\ \E i, j \in 1..Len(ret.sources) : ret.sources[i] # ret.sources[j]

\* C13: if top_docs holds a passage on which source extraction fails (a
\* malformed passage after any number of well-formed ones), handle_query
\* returns the success envelope with the generated answer and an empty
\* sources list.
C13_ExtractionFailureEmptiesSources ==
    (Terminated /\ faults = {} /\ HasMalformed(top_docs)) =>
        /\ Success
        /\ ret.answer = oc.gen.answer
        /\ ret.answer # NoAnswer
        /\ ret.sources = <<>>

ErrorKinds == {"query_processing_failed", "embedding_failed", "search_failed",
               "no_results", "llm_failed", "internal_error"}

\* C14: a returned envelope with an error key has one of the six error
\* kinds, a message, an empty sources list and no answer; a returned
\* envelope without an error key has an answer.
C14_EnvelopeShape ==
    pc = "done" =>
        /\ ret.error # "" =>
              /\ ret.error \in ErrorKinds
              /\ ret.message
              /\ ret.sources = <<>>
              /\ ret.answer = NoAnswer
        /\ ret.error = "" => ret.answer # NoAnswer

\* generate_answer raised and the llm_failed envelope was returned.
C14_Witness ==
    /\ pc = "done"
    /\ oc.gen.k = "raise"
    /\ ret = ErrEnv("llm_failed")
    /\ "llm_failed" \in recorded

\* The kinds the except block of an optional stage passes to
\* metrics_collector.record_error.
ErrorRecordsOf(stage) ==
    CASE stage = "embed_sparse" -> {"sparse_embedding_failed"}
      [] stage = "rerank" -> {}
      [] stage = "extract_sources" -> {}
      [] OTHER -> {}

\* The optional stage raised in this run.
Absorbed(stage) ==
    CASE stage = "embed_sparse" -> oc.sparse = "raise"
      [] stage = "rerank" -> oc.rerank.k = "raise"
      [] stage = "extract_sources" -> oc.extract.k = "raise"
      [] OTHER -> FALSE

\* C15: when handle_query has returned, every optional stage that raised in
\* the run (embed_sparse, rerank, source extraction) has an error record of
\* its own in the metrics collector.
C15_AbsorbedFailuresRecorded ==
    pc = "done" =>
        \A stage \in {"embed_sparse", "rerank", "extract_sources"} :
            Absorbed(stage) => ErrorRecordsOf(stage) \cap recorded # {}

\* The position of id in the hit list (0: not in it).
RankIn(hits, id) ==
    IF id \in Range(hits) THEN CHOOSE i \in 1..Len(hits) : hits[i] = id ELSE 0

\* weight/(RRF_K + rank) as a multiple of 1/Scale, 0 for an id not in the list.
Share(hits, id, w) ==
    IF RankIn(hits, id) = 0 THEN 0
    ELSE (w * Scale) \div (RRF_K + RankIn(hits, id))

ItemIds(items) == {items[i].id : i \in 1..Len(items)}

\* C16: rrf_fuse gives each id of the two hit lists, once, the rrf_score
\* W_DENSE/(RRF_K + its dense rank) + W_SPARSE/(RRF_K + its sparse rank)
\* (a term is absent when the id is not in that list, ranks from 1), sorted
\* descending by rrf_score; dense hits [1, 2], no sparse hits and dense
\* weight 1 give 1/61 and 1/62 in the order [1, 2].
C16_RrfScores ==
    LET fused == hs.res.fused
    IN  hs.op = "fuse" =>
            /\ ItemIds(fused) = Range(hs.dense) \cup Range(hs.sparse)
            /\ Len(fused) = Cardinality(ItemIds(fused))
            /\ \A i \in 1..Len(fused) :
                  fused[i].rrf_score = Share(hs.dense, fused[i].id, hs.wd)
                                       + Share(hs.sparse, fused[i].id, hs.ws)
            /\ \A i \in 1..Len(fused) : \A j \in i..Len(fused) :
                  fused[i].rrf_score >= fused[j].rrf_score
            /\ (hs.dense = <<1, 2>> /\ hs.sparse = <<>> /\ hs.wd = 1) =>
                  /\ RRF_K = 60
                  /\ fused = <<[id |-> 1, rrf_score |-> Scale \div 61],
                               [id |-> 2, rrf_score |-> Scale \div 62]>>

\* One id is in both lists at different ranks, one only in the sparse list,
\* and the sparse-only id is ranked above a dense hit.
C16_Witness ==
    /\ hs.op = "fuse"
    /\ hs.dense = <<1, 2>>
    /\ hs.sparse = <<3, 1>>
    /\ hs.ws = 2
    /\ hs.wd = 1
    /\ Len(hs.res.fused) = 3
    /\ hs.res.fused[2].id = 3

ScoreOfId(items, id) ==
    LET i == CHOOSE j \in 1..Len(items) : items[j].id = id
    IN  items[i].rrf_score

\* C17: accumulating the dense list (with the dense weight) before the
\* sparse list (with the sparse weight) gives every id the same rrf_score as
\* accumulating them in the other order.
C17_FusionCommutes ==
    LET fused == hs.res.fused
        swapped == RrfFuse(hs.sparse, hs.dense, hs.ws, hs.wd)
    IN  hs.op = "fuse" =>
            /\ ItemIds(fused) = ItemIds(swapped)
            /\ \A id \in ItemIds(fused) :
                  ScoreOfId(fused, id) = ScoreOfId(swapped, id)

\* Two ids are in both lists, in opposite orders, and the weights differ.
C17_Witness ==
    /\ hs.op = "fuse"
    /\ hs.wd # hs.ws
    /\ hs.dense = <<1, 2, 3>>
    /\ hs.sparse = <<2, 1>>

\* The call of hybrid_search that differs from the recorded one in the
\* boosts map only.
WithBoosts(b) ==
    HybridSearchFn(hs.dense, hs.sparse, hs.qs, hs.raises2, hs.k, b, hs.wd, hs.ws)

\* C18: for the same hits, the result of the fusion step of hybrid_search
\* (ids, rrf_score, order) is the same for every boosts map, and every
\* returned candidate carries the rrf_score fusion gave it.
C18_BoostsLeaveFusionAlone ==
    hs.op = "search" =>
        /\ \A b \in BoostMaps : WithBoosts(b).fused = hs.res.fused
        /\ \A i \in 1..Len(hs.res.out) :
              /\ hs.res.out[i].id \in ItemIds(hs.res.fused)
              /\ hs.res.out[i].rrf_score
                    = ScoreOfId(hs.res.fused, hs.res.out[i].id)

\* A boost moved the second fused candidate to the front of the result.
C18_Witness ==
    /\ hs.op = "search"
    /\ Len(hs.res.out) >= 2
    /\ hs.res.out[1].id = hs.res.fused[2].id
    /\ hs.res.out[1].boosted_score > hs.res.out[1].rrf_score

\* C19: every returned candidate has boosted_score = rrf_score *
\* boosts[page_type] when its page_type is a key of the boosts map, and
\* boosted_score = rrf_score otherwise (also when it has no page_type),
\* whatever the spelling of page_type and of the keys.
C19_BoostByPageType ==
    hs.op = "search" =>
        \A i \in 1..Len(hs.res.out) :
            LET it == hs.res.out[i]
                pt == PageType(it.id)
            IN  it.boosted_score =
                    IF pt # "" /\ pt \in DOMAIN hs.boosts
                    THEN it.rrf_score * hs.boosts[pt]
                    ELSE it.rrf_score

\* C20: when the sparse query is non-empty, hybrid_search issues a second
\* search with limit k, and every point among the first k sparse matches is
\* in the fused set with W_SPARSE/(RRF_K + its sparse rank) in its
\* rrf_score, also when the dense search did not return it; when the sparse
\* query is empty, only the dense search is issued.
C20_SparseChannelFuses ==
    hs.op = "search" =>
        /\ hs.qs = "empty" => hs.res.limits = <<hs.k>>
        /\ (hs.qs = "nonempty" /\ ~hs.raises2) =>
              /\ hs.res.limits = <<hs.k, hs.k>>
              /\ \A id \in Range(Take(hs.sparse, hs.k)) :
                    /\ id \in ItemIds(hs.res.fused)
                    /\ ScoreOfId(hs.res.fused, id)
                          = Share(Take(hs.dense, hs.k), id, hs.wd)
                            + Share(Take(hs.sparse, hs.k), id, hs.ws)

\* The position of the candidate with this id in a list of items.
IndexOfId(items, id) == CHOOSE i \in 1..Len(items) : items[i].id = id

\* C21: the list hybrid_search returns has at most k entries (k >= 0), no id
\* twice, and is sorted descending by boosted_score, candidates of equal
\* boosted_score in the order the fused list has them.
C21_ResultCappedAndSorted ==
    LET out == hs.res.out
    IN  hs.op = "search" =>
            /\ Len(out) <= hs.k
            /\ Cardinality(ItemIds(out)) = Len(out)
            /\ \A i \in 1..Len(out) : \A j \in (i + 1)..Len(out) :
                  /\ out[i].boosted_score >= out[j].boosted_score
                  /\ out[i].boosted_score = out[j].boosted_score =>
                        IndexOfId(hs.res.fused, out[i].id)
                            < IndexOfId(hs.res.fused, out[j].id)

\* Three candidates came back; a boost put the last fused candidate first
\* and left the other two with equal boosted_score.
C21_Witness ==
    /\ hs.op = "search"
    /\ Len(hs.res.out) = 3
    /\ hs.res.out[1].id = hs.res.fused[3].id
    /\ hs.res.out[2].boosted_score = hs.res.out[3].boosted_score
    /\ hs.res.out[2].rrf_score > hs.res.out[3].rrf_score

\* The relevance model returned one score per pair, each a number.
OneScorePerPair ==
    /\ comp.beh.kind = "scores"
    /\ comp.beh.len = Len(comp.input)
    /\ comp.beh.badAt = 0

\* C22: when the relevance model returns one score per pair, rerank returns
\* the Min(top_n, n) best candidates of the input, each once, with their
\* scores, sorted descending by rerank_score whatever the input order, equal
\* scores in input order; it makes one scoring call, none for an empty
\* input; a single candidate with top_n >= 1 comes back as the result.
C22_RerankSortsAndCaps ==
    comp.op = "rerank" =>
        LET out == comp.res.ret
            n == Len(comp.input)
        IN  /\ n = 0 => (comp.res.k = "ret" /\ out = <<>> /\ comp.scoreCalls = 0)
            /\ OneScorePerPair =>
                  /\ comp.res.k = "ret"
                  /\ comp.scoreCalls = (IF n = 0 THEN 0 ELSE 1)
                  /\ Len(out) = Min(comp.top_n, n)
                  /\ Range(Ids(out)) \subseteq Range(comp.input)
                  /\ Cardinality(Range(Ids(out))) = Len(out)
                  /\ \A i \in 1..Len(out) :
                        out[i].rerank_score = ScoreOf(comp.beh.fn, out[i].id)
                  /\ \A i \in 1..Len(out) : \A j \in (i + 1)..Len(out) :
                        /\ out[i].rerank_score >= out[j].rerank_score
                        /\ out[i].rerank_score = out[j].rerank_score =>
                              RankIn(comp.input, out[i].id)
                                  < RankIn(comp.input, out[j].id)
                  /\ \A id \in Range(comp.input) \ Range(Ids(out)) :
                        \A i \in 1..Len(out) :
                            out[i].rerank_score >= ScoreOf(comp.beh.fn, id)
                  /\ (n = 1 /\ comp.top_n >= 1) => Ids(out) = comp.input

\* Eleven candidates, top_n = 10: the result starts with a candidate that
\* was not first in the input, and has candidates of equal score.
C22_Witness ==
    /\ comp.op = "rerank"
    /\ OneScorePerPair
    /\ Len(comp.input) > comp.top_n
    /\ comp.top_n = TopN
    /\ comp.res.ret[1].id # comp.input[1]
    /\ comp.res.ret[1].rerank_score = comp.res.ret[2].rerank_score

\* The reply is none of the two shapes the service is specified to send: the
\* call failed, the body is no mapping, or a weight is no number.
UnexpectedReply(remote) ==
    \/ remote.kind # "json"
    \/ remote.body.shape = "list"
    \/ \E i \in 1..Len(remote.body.values) : ~IsNumeric(remote.body.values[i])

\* C23: embed_sparse never raises; when the remote call fails or the body
\* has an unexpected shape it returns the empty sparse vector; when sparse
\* embedding is disabled it returns the empty vector without a request.
C23_EmbedSparseNeverRaises ==
    comp.op = "sparse" =>
        /\ comp.res.k = "ret"
        /\ (comp.use_sparse /\ UnexpectedReply(comp.remote)) =>
              comp.res.v = EmptyVector
        /\ ~comp.use_sparse =>
              (comp.res.v = EmptyVector /\ comp.res.requests = 0)

\* C24: every value embed_sparse returns is a sparse vector with as many
\* values as indices and no index twice; for a term -> weight body,
\* values[i] is the weight of the term indices[i].
C24_SparseVectorWellFormed ==
    (comp.op = "sparse" /\ comp.res.k = "ret") =>
        LET v == comp.res.v
        IN  /\ v.shape = "pairs"
            /\ Len(v.indices) = Len(v.values)
            /\ Cardinality(Range(v.indices)) = Len(v.indices)
            /\ (comp.use_sparse /\ comp.remote.kind = "json"
                  /\ comp.remote.body.shape = "map") =>
                  /\ v.indices = comp.remote.body.indices
                  /\ v.values = comp.remote.body.values

\* C25: under every interleaving of the threads that call _get_st_model (or
\* _get_reranker), the constructor succeeds at most once, every call that
\* returns returns the one instance and never None, at most one thread is
\* past the second check at a time, and a call that began with the instance
\* set returns without taking the lock.
C25_ConstructedOnce ==
    comp.op = "lock" =>
        /\ comp.built <= 1
        /\ IsNone(comp.model) <=> comp.built = 0
        /\ Cardinality({t \in Threads :
                           comp.tpc[t] \in {"check2", "construct", "release"}}) <= 1
        /\ \A t \in Threads :
              comp.tpc[t] = "returned" =>
                  /\ ~IsNone(comp.got[t])
                  /\ comp.got[t] = comp.model
                  /\ comp.setAtEntry[t] => ~comp.locked[t]

\* Two threads passed the first check before the instance was set; one
\* built it, the other took the lock and found it; a third call began
\* later and did not take the lock; all three returned the same instance.
C25_Witness ==
    /\ comp.op = "lock"
    /\ comp.built = 1
    /\ \A t \in Threads : comp.tpc[t] = "returned"
    /\ \E t, u, v \in Threads :
          /\ comp.model = t
          /\ comp.locked[t]
          /\ u # t /\ comp.locked[u] /\ ~comp.setAtEntry[u]
          /\ v # t /\ v # u /\ ~comp.locked[v] /\ comp.setAtEntry[v]

\* C26: with caching enabled, two calls of embed_dense for the same text,
\* the second before the TTL of the value the first returned has run out,
\* return the same vector and invoke the model at most once between them;
\* with caching disabled every call invokes the model once.
C26_CacheRoundTrip ==
    comp.op = "cache" =>
        /\ comp.enabled =>
              \A i \in 1..Len(comp.log) : \A j \in (i + 1)..Len(comp.log) :
                  (/\ comp.log[i].text = comp.log[j].text
                   /\ comp.log[j].time < comp.log[i].storedAt + TTL) =>
                      /\ comp.log[j].vec = comp.log[i].vec
                      /\ comp.log[i].encodes + comp.log[j].encodes <= 1
        /\ ~comp.enabled =>
              \A i \in 1..Len(comp.log) : comp.log[i].encodes = 1

\* Three calls for one text: computed, served from the cache half a TTL
\* later, and computed again (another vector) once the TTL has run out.
C26_Witness ==
    /\ comp.op = "cache"
    /\ comp.enabled
    /\ Len(comp.log) = 3
    /\ \A i \in 1..3 : comp.log[i].text = "a"
    /\ comp.log[1].encodes = 1
    /\ comp.log[2].encodes = 0
    /\ comp.log[2].time > comp.log[1].time
    /\ comp.log[3].encodes = 1
    /\ comp.log[3].vec # comp.log[1].vec

\* The points of the store whose text has the hash of this text.
PointsFor(text) ==
    {pid \in PointIds :
        /\ comp.store[pid] # NoPoint
        /\ TextHash(comp.store[pid].text) = TextHash(text)}

\* C27: the id of every point written is derived from the content hash of
\* its chunk, so two chunks were given the same id only if their hashes
\* agree on the prefix used, and however often a text was upserted the store
\* holds exactly one point for it.
C27_IngestionIdempotent ==
    comp.op = "index" =>
        /\ \A w \in comp.written : w[2] = TextHash(w[1].text).pre
        /\ \A w1, w2 \in comp.written :
              w1[2] = w2[2] => TextHash(w1[1].text).pre = TextHash(w2[1].text).pre
        /\ \A w \in comp.written : Cardinality(PointsFor(w[1].text)) = 1

\* C28: the internal_error envelope is the same for every exception that
\* reaches the outer except: the envelope returned is the one any other
\* exception would have given, and it is the fixed internal_error envelope.
C28_InternalErrorLeaksNothing ==
    (pc = "done" /\ ret.error = "internal_error") =>
        /\ \A e \in ExcTypes : CatchAllEnvelope(e) = ret
        /\ ret = ErrEnv("internal_error")

\* A ValueError reached the outer except (its type went to the metrics) and
\* the internal_error envelope was returned.
C28_Witness ==
    /\ pc = "done"
    /\ ret.error = "internal_error"
    /\ "ValueError" \in recorded
    /\ "RuntimeError" \notin recorded

\* C29: one call of generate_answer invokes each provider at most once, for
\* every configured default provider, and returns the fixed "providers
\* unavailable" string only after each of the three providers was tried.
C29_EachProviderOnce ==
    LET log == oc.gen.log
    IN  oc.gen.k = "ret" =>
            /\ \A i, j \in 1..Len(log) :
                  log[i].provider = log[j].provider => i = j
            /\ oc.gen.answer = Apology =>
                  {log[i].provider : i \in 1..Len(log)} = Providers

====
